---- MODULE Spec2Model ----
(***************************************************************************)
(* A model of build.py, the launcher that configures and runs the GDB for  *)
(* Android build (bash build-gdb.sh ...).  One run of main() is modelled   *)
(* as a sequence of steps; the inputs of a run (the environment, the       *)
(* platform identifier, the command line) are chosen in Init, the answers  *)
(* of the operating system (does the directory exist, how many CPUs, can   *)
(* bash be started, how does the child end) when the code asks for them.   *)
(*                                                                         *)
(* Python strings are TLA+ strings, built with \o as the code builds them  *)
(* with + and format().  File-system paths are sequences of components     *)
(* until they are rendered into strings.                                   *)
(***************************************************************************)
EXTENDS Integers, Sequences, FiniteSets, TLC

\* ------------------------------------------------------------------ bounds

\* The longest command line tried (number of options after the program name).
MaxArgs == 2

\* ------------------------------------------------------------ Python values

\* Python's None, for an option that was not given.
None == "None"

\* A local of main() that has not been assigned yet.
Unassigned == "<unassigned>"

\* sep.join(seq) on a list of strings.
RECURSIVE Join(_, _)
Join(seq, sep) ==
    IF Len(seq) = 0 THEN ""
    ELSE IF Len(seq) = 1 THEN seq[1]
    ELSE seq[1] \o sep \o Join(Tail(seq), sep)

\* ------------------------------------------------------------- path algebra

\* A path as the code holds it before os.path.realpath: absolute or relative,
\* and its components.  The empty relative path is the empty string ''.
AbsPath(parts) == [abs |-> TRUE, parts |-> parts]
RelPath(parts) == [abs |-> FALSE, parts |-> parts]
EmptyString == RelPath(<< >>)

\* The symbolic links of the file system the runs see: /lnk -> /src.
SymlinkSources == { <<"lnk">> }
SymlinkTarget(p) == <<"src">>

\* os.path.join(top, path) for a relative path: the components of both.
PathJoin(top, rel) == [abs |-> top.abs, parts |-> top.parts \o rel]

\* The component-by-component walk of os.path.realpath over an absolute path:
\* '.' is dropped, '..' goes one directory up, a symbolic link is followed.
RECURSIVE Walk(_, _)
Walk(done, rest) ==
    IF Len(rest) = 0 THEN done
    ELSE LET c == Head(rest) IN
         IF c = "." THEN Walk(done, Tail(rest))
         ELSE IF c = ".."
              THEN Walk(IF Len(done) = 0 THEN done
                        ELSE SubSeq(done, 1, Len(done) - 1), Tail(rest))
         ELSE LET n == Append(done, c) IN
              IF n \in SymlinkSources
              THEN Walk(SymlinkTarget(n), Tail(rest))
              ELSE Walk(n, Tail(rest))

\* os.path.realpath(p) in working directory wd: a relative path is taken
\* from wd, then walked.  The result is the components of an absolute path.
Realpath(wd, p) == Walk(<< >>, IF p.abs THEN p.parts ELSE wd \o p.parts)

\* The string of an absolute path.
RECURSIVE RenderParts(_)
RenderParts(parts) ==
    IF Len(parts) = 0 THEN ""
    ELSE "/" \o Head(parts) \o RenderParts(Tail(parts))

Render(parts) == IF Len(parts) = 0 THEN "/" ELSE RenderParts(parts)

\* ------------------------------------------------------------ dictionaries

\* d[k] = v on a Python dict: the key is added or its value replaced.
DictSet(d, k, v) == [x \in (DOMAIN d) \cup {k} |-> IF x = k THEN v ELSE d[x]]

\* os.getenv(name, default).
getenv(env, name, default) == IF name \in DOMAIN env THEN env[name] ELSE default

\* --------------------------------------------------------- the fixed tables

ALL_TOOLCHAINS ==
    << "arm-linux-androideabi", "aarch64-linux-android",
       "mipsel-linux-android", "mips64el-linux-android",
       "x86", "x86_64" >>

\* The dict literal of toolchain_to_arch.
ArchTable ==
    ( "arm-linux-androideabi" :> "arm" ) @@
    ( "aarch64-linux-android" :> "arm64" ) @@
    ( "mipsel-linux-android" :> "mips" ) @@
    ( "mips64el-linux-android" :> "mips64" ) @@
    ( "x86" :> "x86" ) @@
    ( "x86_64" :> "x86_64" )

\* toolchain_to_arch with the arm64 entry mistyped as arm.
toolchain_to_arch_arm64_as_arm(toolchain) ==
    IF toolchain = "aarch64-linux-android" THEN "arm"
    ELSE IF toolchain \in DOMAIN ArchTable THEN ArchTable[toolchain] ELSE "KeyError"

\* toolchain_to_arch(toolchain); a key that is not in the dict raises KeyError.
toolchain_to_arch(toolchain) ==
    IF toolchain \in DOMAIN ArchTable THEN ArchTable[toolchain] ELSE "KeyError"

\* choices= of --host that lets an unknown operating system through.
HostChoices_unchecked == { "darwin", "linux", "windows", "windows64", "solaris" }

\* The choices= of --host.
HostChoices == { "darwin", "linux", "windows", "windows64" }

\* The choices= of --toolchain.
ToolchainChoices == { ALL_TOOLCHAINS[i] : i \in DOMAIN ALL_TOOLCHAINS }

\* get_default_host that detects Windows instead of raising.
get_default_host_detects_windows(p) ==
    IF p \in { "linux", "linux2" } THEN "linux"
    ELSE IF p = "darwin" THEN "darwin"
    ELSE "windows"

\* get_default_host() on sys.platform p: the host, or the exception raised.
get_default_host(p) ==
    IF p \in { "linux", "linux2" } THEN "linux"
    ELSE IF p = "darwin" THEN "darwin"
    ELSE "RuntimeError"

\* ------------------------------------------------------------ android_path

\* The test `if not top` of android_path: the variable is unset or empty.
TopMissing(env) == getenv(env, "ANDROID_BUILD_TOP", EmptyString) = EmptyString

\* android_path(path) when it returns: realpath(join(top, path)), evaluated in
\* the working directory wd the process has at the time of the call.
android_path(env, wd, rel) ==
    Realpath(wd, PathJoin(getenv(env, "ANDROID_BUILD_TOP", EmptyString), rel))

\* get_default_package_dir().
get_default_package_dir(env, wd) == Render(android_path(env, wd, <<"out", "ndk">>))

\* ------------------------------------------------------------ the parser

\* One option of the command line: its flag and the value given to it.
Opt(flag, val) == [opt |-> flag, val |-> val]

\* ArgumentParser.parse_args from option i on, with the namespace ns built so
\* far.  Options are handled left to right: --help prints and exits at once, a
\* value outside choices is a usage error at once, a repeated option replaces
\* the earlier value.
RECURSIVE ParseFrom(_, _, _)
ParseFrom(av, i, ns) ==
    IF i > Len(av) THEN [kind |-> "ok", ns |-> ns]
    ELSE LET t == av[i] IN
         IF t.opt = "--help" THEN [kind |-> "help", ns |-> ns]
         ELSE IF t.opt = "--host"
              THEN IF t.val \in HostChoices
                   THEN ParseFrom(av, i + 1, [ns EXCEPT !.host = t.val])
                   ELSE [kind |-> "error", ns |-> ns]
         ELSE IF t.opt = "--toolchain"
              THEN IF t.val \in ToolchainChoices
                   THEN ParseFrom(av, i + 1, [ns EXCEPT !.toolchain = t.val])
                   ELSE [kind |-> "error", ns |-> ns]
         ELSE ParseFrom(av, i + 1, [ns EXCEPT !.package_dir = t.val])

\* parse_args() of the parser ArgParser() built with the given default of
\* --package-dir; --host and --toolchain default to None.
parse_args(av, default_package_dir) ==
    ParseFrom(av, 1, [host |-> None, package_dir |-> default_package_dir,
                      toolchain |-> None])

\* What --help prints: the description (the module's docstring) and the flags.
HelpText ==
    "Builds GDB for Android. [-h] [--host {darwin,linux,windows,windows64}] "
    \o "[--package-dir PACKAGE_DIR] [--toolchain {"
    \o Join(ALL_TOOLCHAINS, ",") \o "}]"

\* ------------------------------------------------------- command assembly

\* The toolchains built: all of them, or the one --toolchain names.
SelectToolchains(toolchain) ==
    IF toolchain # None THEN << toolchain >> ELSE ALL_TOOLCHAINS

\* The value of the --arch= argument.
ArchArg(tcs) == "--arch=" \o Join([i \in DOMAIN tcs |-> toolchain_to_arch(tcs[i])], ",")

\* build_cmd of main().
BuildCmd(tc_path, ndk, tcs, pkg_arg, jobs) ==
    << "bash", "build-gdb.sh", "--toolchain-src-dir=" \o tc_path,
       "--ndk-dir=" \o ndk, "--verbose", ArchArg(tcs), pkg_arg, jobs >>

\* build_env of main(): a copy of os.environ with the two variables set.
BuildEnv(env, tools, ndk) ==
    DictSet(DictSet(env, "NDK_BUILDTOOLS_PATH", tools), "ANDROID_NDK_ROOT", ndk)

\* The summary line printed before the command.
SummaryLine(h, tcs) == "Building " \o h \o " gdb: " \o Join(tcs, " ")

\* ------------------------------------------------------------------- state

VARIABLES
    environ,          \* os.environ of the tool's own process
    platform,         \* sys.platform
    argv,             \* the options of the command line, left to right
    cwd,              \* the working directory of the tool's process
    pc,               \* where main() is
    parser_default,   \* the default= of --package-dir the parser was built with
    args,             \* the namespace parse_args returned
    toolchain_path, ndk_path, jobs_arg, package_dir_arg, toolchains,
    host, build_env, build_cmd,        \* the locals of main()
    platform_read,    \* get_default_host() has looked at sys.platform
    stdout,           \* the lines printed so far
    child,            \* the process started by subprocess.check_call
    outcome,          \* how the run ended: the exception, or the kind of exit
    exit_status,      \* the exit status of the tool, -1 while it runs
    events            \* the observable events of the run, in order

inputs == << environ, platform, argv >>
locals == << toolchain_path, ndk_path, jobs_arg, package_dir_arg, toolchains,
             host, build_env, build_cmd >>
vars == << environ, platform, argv, cwd, pc, parser_default, args,
           toolchain_path, ndk_path, jobs_arg, package_dir_arg, toolchains,
           host, build_env, build_cmd, platform_read, stdout, child, outcome,
           exit_status, events >>

\* ------------------------------------------------------------------ inputs

\* The directory the tool is started in.
StartCwd == << "home" >>

\* The variables every tried environment holds besides ANDROID_BUILD_TOP: an
\* unrelated one, and an inherited value of one the child is given anew.
BaseEnv == ( "PATH" :> "/usr/bin" ) @@ ( "NDK_BUILDTOOLS_PATH" :> "/stale/tools" )

\* The values of ANDROID_BUILD_TOP tried: empty, absolute, absolute through a
\* symbolic link, and relative to the directory the tool is started in.
TopValues == { EmptyString, AbsPath(<<"src">>), AbsPath(<<"lnk">>), RelPath(<<"src">>) }

Environments == { BaseEnv } \cup { DictSet(BaseEnv, "ANDROID_BUILD_TOP", t) : t \in TopValues }

Platforms == { "linux", "linux2", "darwin", "win32" }

Options ==
    { Opt("--help", "") }
    \cup { Opt("--host", h) : h \in HostChoices \cup { "solaris" } }
    \cup { Opt("--toolchain", t) : t \in ToolchainChoices \cup { "arm" } }
    \cup { Opt("--package-dir", "/pkg") }

CommandLines == UNION { [1..n -> Options] : n \in 0..MaxArgs }

\* The exit statuses the build script is tried with; bash itself answers 127
\* when the script file does not exist.
ScriptStatuses == { 0, 1, 2, 127 }

\* The answers of multiprocessing.cpu_count() tried.
CpuCounts == { 1, 8 }

NoChild == [state |-> "none"]

Init ==
    /\ environ \in Environments
    /\ platform \in Platforms
    /\ argv \in CommandLines
    /\ cwd = StartCwd
    /\ pc = "start"
    /\ parser_default = Unassigned
    /\ args = [host |-> None, package_dir |-> Unassigned, toolchain |-> None]
    /\ toolchain_path = Unassigned
    /\ ndk_path = Unassigned
    /\ jobs_arg = Unassigned
    /\ package_dir_arg = Unassigned
    /\ toolchains = << >>
    /\ host = Unassigned
    /\ build_env = << >>
    /\ build_cmd = << >>
    /\ platform_read = FALSE
    /\ stdout = << >>
    /\ child = NoChild
    /\ outcome = "running"
    /\ exit_status = -1
    /\ events = << >>

\* ------------------------------------------------------------------- steps

\* The process ends: by sys.exit, by an exception nobody catches (status 1),
\* or by main() returning (status 0).
Terminate(kind, status) ==
    /\ pc' = "exited"
    /\ outcome' = kind
    /\ exit_status' = status
    /\ events' = Append(events, "exit")

\* ArgParser() is built: the default of --package-dir is computed first, and
\* android_path ends the process with a message when the root is not set.
ArgParserExits ==
    /\ pc = "start"
    /\ TopMissing(environ)
    /\ Terminate("SystemExit: ANDROID_BUILD_TOP not set", 1)
    /\ UNCHANGED << inputs, cwd, parser_default, args, locals, platform_read,
                    stdout, child >>

ArgParserBuilt ==
    /\ pc = "start"
    /\ ~ TopMissing(environ)
    /\ parser_default' = get_default_package_dir(environ, cwd)
    /\ pc' = "parse"
    /\ events' = Append(events, "root")
    /\ UNCHANGED << inputs, cwd, args, locals, platform_read, stdout, child,
                    outcome, exit_status >>

\* parse_args(): --help prints the help and exits 0.
ParseHelp ==
    /\ pc = "parse"
    /\ parse_args(argv, parser_default).kind = "help"
    /\ stdout' = Append(stdout, HelpText)
    /\ Terminate("help", 0)
    /\ UNCHANGED << inputs, cwd, parser_default, args, locals, platform_read, child >>

\* parse_args(): a value outside choices is a usage error, exit status 2.
ParseError ==
    /\ pc = "parse"
    /\ parse_args(argv, parser_default).kind = "error"
    /\ Terminate("usage error: invalid choice", 2)
    /\ UNCHANGED << inputs, cwd, parser_default, args, locals, platform_read,
                    stdout, child >>

ParseOk ==
    /\ pc = "parse"
    /\ parse_args(argv, parser_default).kind = "ok"
    /\ args' = parse_args(argv, parser_default).ns
    /\ pc' = "chdir"
    /\ events' = Append(events, "parsed")
    /\ UNCHANGED << inputs, cwd, parser_default, locals, platform_read, stdout,
                    child, outcome, exit_status >>

\* os.chdir(android_path('toolchain/gdb')); the directory may not exist.
ChdirOk ==
    /\ pc = "chdir"
    /\ cwd' = android_path(environ, cwd, <<"toolchain", "gdb">>)
    /\ pc' = "paths"
    /\ events' = Append(events, "chdir")
    /\ UNCHANGED << inputs, parser_default, args, locals, platform_read, stdout,
                    child, outcome, exit_status >>

ChdirFails ==
    /\ pc = "chdir"
    /\ Terminate("OSError: chdir", 1)
    /\ UNCHANGED << inputs, cwd, parser_default, args, locals, platform_read,
                    stdout, child >>

\* toolchain_path, ndk_path, jobs_arg, package_dir_arg and toolchains.
ComputePaths ==
    /\ pc = "paths"
    /\ toolchain_path' = Render(android_path(environ, cwd, <<"toolchain">>))
    /\ ndk_path' = Render(android_path(environ, cwd, <<"ndk">>))
    /\ \E cpu_count \in CpuCounts : jobs_arg' = "-j" \o ToString(cpu_count)
    /\ package_dir_arg' = "--package-dir=" \o args.package_dir
    /\ toolchains' = SelectToolchains(args.toolchain)
    /\ pc' = "host"
    /\ UNCHANGED << inputs, cwd, parser_default, args, host, build_env, build_cmd,
                    platform_read, stdout, child, outcome, exit_status, events >>

\* host = args.host when --host was given.
HostGiven ==
    /\ pc = "host"
    /\ args.host # None
    /\ host' = args.host
    /\ pc' = "env"
    /\ UNCHANGED << inputs, cwd, parser_default, args, toolchain_path, ndk_path,
                    jobs_arg, package_dir_arg, toolchains, build_env, build_cmd,
                    platform_read, stdout, child, outcome, exit_status, events >>

\* host = get_default_host() otherwise, on a platform it knows.
HostDefault ==
    /\ pc = "host"
    /\ args.host = None
    /\ get_default_host(platform) # "RuntimeError"
    /\ host' = get_default_host(platform)
    /\ platform_read' = TRUE
    /\ pc' = "env"
    /\ UNCHANGED << inputs, cwd, parser_default, args, toolchain_path, ndk_path,
                    jobs_arg, package_dir_arg, toolchains, build_env, build_cmd,
                    stdout, child, outcome, exit_status, events >>

\* get_default_host() raises RuntimeError on any other platform.
HostUnsupported ==
    /\ pc = "host"
    /\ args.host = None
    /\ get_default_host(platform) = "RuntimeError"
    /\ platform_read' = TRUE
    /\ Terminate("RuntimeError: Unsupported host", 1)
    /\ UNCHANGED << inputs, cwd, parser_default, args, locals, stdout, child >>

\* ndk_build_tools_path and build_env.
MakeBuildEnv ==
    /\ pc = "env"
    /\ build_env' = BuildEnv(environ,
                             Render(android_path(environ, cwd, <<"ndk", "build", "tools">>)),
                             ndk_path)
    /\ pc' = "summary"
    /\ UNCHANGED << inputs, cwd, parser_default, args, toolchain_path, ndk_path,
                    jobs_arg, package_dir_arg, toolchains, host, build_cmd,
                    platform_read, stdout, child, outcome, exit_status, events >>

\* print('Building {} gdb: {}'...).
PrintSummary ==
    /\ pc = "summary"
    /\ stdout' = Append(stdout, SummaryLine(host, toolchains))
    /\ pc' = "command"
    /\ events' = Append(events, "summary")
    /\ UNCHANGED << inputs, cwd, parser_default, args, locals, platform_read,
                    child, outcome, exit_status >>

\* build_cmd is assembled and printed.
PrintCommand ==
    /\ pc = "command"
    /\ build_cmd' = BuildCmd(toolchain_path, ndk_path, toolchains, package_dir_arg, jobs_arg)
    /\ stdout' = Append(stdout, Join(build_cmd', " "))
    /\ pc' = "launch"
    /\ events' = Append(events, "command")
    /\ UNCHANGED << inputs, cwd, parser_default, args, toolchain_path, ndk_path,
                    jobs_arg, package_dir_arg, toolchains, host, build_env,
                    platform_read, child, outcome, exit_status >>

\* subprocess.check_call starts bash with build_cmd and build_env in the
\* working directory of the tool; build-gdb.sh may or may not be there.
SpawnChild ==
    /\ pc = "launch"
    /\ \E script \in { "present", "missing" } :
          child' = [state |-> "running", argv |-> build_cmd, env |-> build_env,
                    cwd |-> cwd, script |-> script]
    /\ pc' = "wait"
    /\ events' = Append(events, "spawn")
    /\ UNCHANGED << inputs, cwd, parser_default, args, locals, platform_read,
                    stdout, outcome, exit_status >>

\* bash itself cannot be started: Popen raises OSError.
LaunchFails ==
    /\ pc = "launch"
    /\ Terminate("OSError: launch", 1)
    /\ UNCHANGED << inputs, cwd, parser_default, args, locals, platform_read,
                    stdout, child >>

\* The child ends.  bash answers 127 for a script file it cannot find;
\* otherwise the status is the script's.
ChildTerminates ==
    /\ pc = "wait"
    /\ child.state = "running"
    /\ \E c \in ScriptStatuses :
          /\ child.script = "missing" => c = 127
          /\ child' = [child EXCEPT !.state = "exited"] @@ ( "returncode" :> c )
    /\ events' = Append(events, "childexit")
    /\ UNCHANGED << inputs, cwd, pc, parser_default, args, locals, platform_read,
                    stdout, outcome, exit_status >>

\* The child started without being waited for (Popen in place of check_call):
\* main() returns while the child still runs.
CheckCallReturns_nowait ==
    /\ pc = "wait"
    /\ child.state = "running"
    /\ Terminate("success", 0)
    /\ UNCHANGED << inputs, cwd, parser_default, args, locals, platform_read,
                    stdout, child >>

\* check_call returns on status 0, main() returns, the tool exits 0.
CheckCallReturns ==
    /\ pc = "wait"
    /\ child.state = "exited"
    /\ child.returncode = 0
    /\ Terminate("success", 0)
    /\ UNCHANGED << inputs, cwd, parser_default, args, locals, platform_read,
                    stdout, child >>

\* check_call raises CalledProcessError on any other status; nobody catches
\* it, so the interpreter prints the traceback and exits with status 1.
CheckCallRaises ==
    /\ pc = "wait"
    /\ child.state = "exited"
    /\ child.returncode # 0
    /\ Terminate("CalledProcessError", 1)
    /\ UNCHANGED << inputs, cwd, parser_default, args, locals, platform_read,
                    stdout, child >>

Next ==
    \/ ArgParserExits
    \/ ArgParserBuilt
    \/ ParseHelp
    \/ ParseError
    \/ ParseOk
    \/ ChdirOk
    \/ ChdirFails
    \/ ComputePaths
    \/ HostGiven
    \/ HostDefault
    \/ HostUnsupported
    \/ MakeBuildEnv
    \/ PrintSummary
    \/ PrintCommand
    \/ SpawnChild
    \/ LaunchFails
    \/ ChildTerminates
    \/ CheckCallReturns
    \/ CheckCallRaises

Spec == Init /\ [][Next]_vars

\* ------------------------------------------------- what a run was given

\* The root of the tree as the tool resolves it when it starts.
Root == Realpath(StartCwd, getenv(environ, "ANDROID_BUILD_TOP", EmptyString))

\* The string <root>/rel.
UnderRoot(rel) == Render(Root \o rel)

RootUnset ==
    \/ "ANDROID_BUILD_TOP" \notin DOMAIN environ
    \/ environ["ANDROID_BUILD_TOP"] = EmptyString

OptionIndexes(flag) == { i \in DOMAIN argv : argv[i].opt = flag }

Given(flag) == OptionIndexes(flag) # {}

\* The value of the last occurrence of a flag on the command line.
LastValue(flag) ==
    IF ~ Given(flag) THEN None
    ELSE argv[CHOOSE i \in OptionIndexes(flag) :
                  \A j \in OptionIndexes(flag) : j <= i].val

InvalidAt(i) ==
    \/ argv[i].opt = "--host"
       /\ argv[i].val \notin { "darwin", "linux", "windows", "windows64" }
    \/ argv[i].opt = "--toolchain"
       /\ argv[i].val \notin { "arm-linux-androideabi", "aarch64-linux-android",
                               "mipsel-linux-android", "mips64el-linux-android",
                               "x86", "x86_64" }

InvalidFlagValue == \E i \in DOMAIN argv : InvalidAt(i)

\* The parser meets --help before any value outside its domain.
HelpReached ==
    \E i \in OptionIndexes("--help") : \A j \in 1..(i - 1) : ~ InvalidAt(j)

UnsupportedPlatform == platform \notin { "linux", "linux2", "darwin" }

\* One of the three configuration errors is present in the run's inputs.
ConfigurationError ==
    \/ RootUnset
    \/ InvalidFlagValue
    \/ ~ Given("--host") /\ UnsupportedPlatform

Exited == pc = "exited"

Spawned == child.state # "none"

\* ------------------------------------------------------------------ claims

\* C1: exit-status propagation.  In every run that reaches the subprocess
\* launch, when the child has ended with status c the tool exits with that
\* same status c: 0 for 0, and a non-zero c is not replaced by another value.
C1_ExitStatusPropagated ==
    (Exited /\ Spawned /\ child.state = "exited") => exit_status = child.returncode

\* C2, as stated: in every run with ANDROID_BUILD_TOP unset or empty, or with
\* a --host or --toolchain value outside its domain, or with no --host on a
\* platform that is neither Linux-family nor Darwin, the tool exits non-zero
\* and the build command is never spawned.
C2_ConfigErrorExitsNonZero ==
    ConfigurationError => ( ~ Spawned /\ (Exited => exit_status # 0) )

\* C2, amended: in every such run the build command is never spawned, and the
\* exit status is non-zero unless the root is set and the parser meets --help
\* before any invalid value, in which case the help is printed and the status
\* is 0.
C2_NoChildOnConfigError ==
    ConfigurationError =>
        /\ ~ Spawned
        /\ "spawn" \notin { events[i] : i \in DOMAIN events }
        /\ Exited => IF ~ RootUnset /\ HelpReached
                     THEN exit_status = 0 /\ outcome = "help"
                     ELSE exit_status # 0

C2_Witness ==
    /\ Exited
    /\ ~ Given("--host") /\ UnsupportedPlatform
    /\ ~ RootUnset /\ ~ InvalidFlagValue /\ ~ Given("--help")
    /\ outcome = "RuntimeError: Unsupported host"
    /\ exit_status = 1
    /\ ~ Spawned

\* C3: configuration errors leave nothing partially executed.  When a missing
\* root, an invalid flag value or an unsupported host platform ends the run,
\* the working directory is still the one the tool was started in and neither
\* the summary line nor the command line has been printed.
C3_NothingPartiallyExecuted ==
    ( Exited /\ outcome \in { "SystemExit: ANDROID_BUILD_TOP not set",
                              "usage error: invalid choice",
                              "RuntimeError: Unsupported host" } )
    => /\ cwd = StartCwd
       /\ stdout = << >>
       /\ { events[i] : i \in DOMAIN events } \cap { "chdir", "summary", "command" } = {}

\* C4: help mode.  Every run invoked with --help, whether or not
\* ANDROID_BUILD_TOP is set, prints the description and the flag list, exits
\* with status 0, leaves the working directory unchanged and spawns no child.
C4_HelpMode ==
    Given("--help") =>
        /\ cwd = StartCwd
        /\ ~ Spawned
        /\ Exited => ( exit_status = 0 /\ stdout = << HelpText >> )

\* C5: launch errors are distinct from build failures.  A run whose build
\* script is missing ends in an outcome that no run whose script starts and
\* exits non-zero ends in.
C5_LaunchErrorDistinct ==
    ( Exited /\ Spawned /\ child.script = "missing" ) =>
        << outcome, exit_status, child.returncode >> \notin
            { << "CalledProcessError", 1, c >> : c \in ScriptStatuses \ { 0 } }

\* The architecture tag the toolchain table gives each identifier.
C6_Tag(t) ==
    CASE t = "arm-linux-androideabi" -> "arm"
      [] t = "aarch64-linux-android" -> "arm64"
      [] t = "mipsel-linux-android" -> "mips"
      [] t = "mips64el-linux-android" -> "mips64"
      [] t = "x86" -> "x86"
      [] t = "x86_64" -> "x86_64"

\* The --arch= argument the command line of the run calls for.
C6_Expected ==
    IF Given("--toolchain") THEN "--arch=" \o C6_Tag(LastValue("--toolchain"))
    ELSE "--arch=arm,arm64,mips,mips64,x86,x86_64"

\* C6: the --arch argument.  The parser's --toolchain choices and the keys of
\* toolchain_to_arch are the same six identifiers, and the assembled command
\* holds exactly one --arch= argument: the six tags in table order, comma
\* separated, when --toolchain is unset, and the single tag of t when
\* --toolchain=t is given.
C6_ArchArgument ==
    /\ ToolchainChoices = DOMAIN ArchTable
    /\ Cardinality(ToolchainChoices) = Len(ALL_TOOLCHAINS)
    /\ \A t \in ToolchainChoices : toolchain_to_arch(t) = C6_Tag(t)
    /\ build_cmd # << >> =>
          /\ Len(build_cmd) = 8
          /\ build_cmd[6] = C6_Expected
          /\ build_cmd[1] = "bash"
          /\ build_cmd[2] = "build-gdb.sh"
          /\ build_cmd[3] = "--toolchain-src-dir=" \o toolchain_path
          /\ build_cmd[4] = "--ndk-dir=" \o ndk_path
          /\ build_cmd[5] = "--verbose"
          /\ build_cmd[7] = "--package-dir=" \o args.package_dir
          /\ \E n \in CpuCounts : build_cmd[8] = "-j" \o ToString(n)
    /\ Spawned => child.argv = build_cmd

C6_Witness ==
    /\ Spawned
    /\ LastValue("--toolchain") = "arm-linux-androideabi"
    /\ child.argv[6] = "--arch=arm"

\* C7: child environment and parent frame.  The child's environment equals the
\* tool's own on every variable but NDK_BUILDTOOLS_PATH and ANDROID_NDK_ROOT,
\* which are <root>/ndk/build/tools and <root>/ndk whatever was inherited; the
\* tool's own environment stays as it was at start, the two variables never
\* leaking into it.
C7_ChildEnvAndParentFrame ==
    /\ environ \in Environments
    /\ build_env # << >> =>
          /\ DOMAIN build_env = DOMAIN environ \cup { "NDK_BUILDTOOLS_PATH", "ANDROID_NDK_ROOT" }
          /\ \A v \in DOMAIN environ \ { "NDK_BUILDTOOLS_PATH", "ANDROID_NDK_ROOT" } :
                build_env[v] = environ[v]
          /\ build_env["NDK_BUILDTOOLS_PATH"] = UnderRoot(<<"ndk", "build", "tools">>)
          /\ build_env["ANDROID_NDK_ROOT"] = UnderRoot(<<"ndk">>)
    /\ Spawned => child.env = build_env

\* C8: effective host resolution.  With --host supplied the effective host is
\* that value, the platform is never consulted and the run cannot fail with an
\* unsupported-host error; without it the host is linux on a Linux-family
\* platform and darwin on Darwin; so the host is windows or windows64 only
\* where it was supplied.
C8_EffectiveHost ==
    /\ Given("--host") =>
          /\ ~ platform_read
          /\ outcome # "RuntimeError: Unsupported host"
          /\ host # Unassigned => host = LastValue("--host")
    /\ ( ~ Given("--host") /\ host # Unassigned ) =>
          \/ platform \in { "linux", "linux2" } /\ host = "linux"
          \/ platform = "darwin" /\ host = "darwin"
    /\ host \in { "windows", "windows64" } => LastValue("--host") = host

C8_Witness ==
    /\ LastValue("--host") = "windows"
    /\ platform = "win32"
    /\ host = "windows"
    /\ Exited
    /\ outcome = "success"

\* The events of a run, in the order of the build flow.
EventOrder ==
    << "root", "parsed", "chdir", "summary", "command", "spawn", "childexit", "exit" >>

Rank(e) == CHOOSE i \in DOMAIN EventOrder : EventOrder[i] = e

C10_HostDoesNotReachBuild ==
    Spawned =>
        /\ \E n \in CpuCounts :
              child.argv =
                  << "bash", "build-gdb.sh",
                     "--toolchain-src-dir=" \o UnderRoot(<<"toolchain">>),
                     "--ndk-dir=" \o UnderRoot(<<"ndk">>),
                     "--verbose",
                     C6_Expected,
                     "--package-dir=" \o ( IF Given("--package-dir")
                                              THEN LastValue("--package-dir")
                                              ELSE UnderRoot(<<"out", "ndk">>) ),
                     "-j" \o ToString(n) >>
        /\ child.env =
              [ v \in DOMAIN environ \cup { "NDK_BUILDTOOLS_PATH", "ANDROID_NDK_ROOT" } |->
                    IF v = "NDK_BUILDTOOLS_PATH" THEN UnderRoot(<<"ndk", "build", "tools">>)
                    ELSE IF v = "ANDROID_NDK_ROOT" THEN UnderRoot(<<"ndk">>)
                    ELSE environ[v] ]

====
